---- MODULE Spec2Model ----
(***************************************************************************)
(* A state-machine model of the WhatsApp health assistant in src/app.py:   *)
(* the session store (user_sessions and the session dictionaries it        *)
(* holds), the Twilio webhook, the conversation flow manager and the       *)
(* retry-wrapped model call.                                                *)
(*                                                                         *)
(* Texts are TLA+ strings.  A character outside printable ASCII is written *)
(* as its code point in braces, "{0928}" for U+0928, so that every table   *)
(* of the source is carried over character by character.                    *)
(***************************************************************************)
EXTENDS Integers, Sequences, FiniteSets, TLC

(***************************************************************************)
(* Bounds of the model.                                                     *)
(***************************************************************************)
\* requests the webhook accepts in one behaviour
MaxRequests == 3
\* requests in flight at the same time (Flask serves each in its own thread)
MaxInflight == 2
\* the clock stops advancing here
MaxTime == 600
\* requests of a burst served by parallel threads
MaxBurst == 2

(***************************************************************************)
(* Constants of the program.                                                *)
(***************************************************************************)
SESSION_TIMEOUT == 300

\* max_tries of the backoff decorator of ask_llm
max_tries == 3

EXIT_WORDS ==
    << "bye",
       "no",
       "thanks",
       "thank you",
       "{0928}{0939}{0940}{0902}",
       "{0927}{0928}{094D}{092F}{0935}{093E}{0926}",
       "stop",
       "exit",
       "band karo" >>

EMERGENCY_WORDS ==
    << "unconscious",
       "chest pain",
       "heavy bleeding",
       "heart attack",
       "saans lene me dikkat",
       "{0938}{093E}{0902}{0938} {0932}{0947}{0928}{0947} {092E}{0947}{0902} {0926}{093F}{0915}{094D}{0915}{0924}",
       "{0926}{092E} {0918}{0941}{091F} {0930}{0939}{093E}",
       "{0938}{093E}{0901}{0938} {0932}{0947}{0928}{0947} {092E}{0947}{0902} {0915}{0920}{093F}{0928}{093E}{0908}" >>

SUPPORTED_LANGS == << "en", "hi", "mr", "bn" >>

\* Python's None where a language code is expected
None == "None"

\* an unbound session reference (a local not yet assigned, a dead local)
Null == 0

EMERGENCY_MESSAGE(lang) ==
    CASE lang = "hi" ->
        "{26A0}{FE0F} **{0924}{0941}{0930}{0902}{0924} {092E}{0926}{0926}!** {092F}{0939} {090F}{0915} {0906}{092A}{093E}{0924}{0915}{093E}{0932}{0940}{0928} {0938}{094D}{0925}{093F}{0924}{093F} {0939}{094B} {0938}{0915}{0924}{0940} {0939}{0948}{0964} {0915}{0943}{092A}{092F}{093E} {092C}{093F}{0928}{093E} {0926}{0947}{0930} {0915}{093F}{090F} {090F}{092E}{094D}{092C}{0941}{0932}{0947}{0902}{0938} {0915}{094B} {0915}{0949}{0932} {0915}{0930}{0947}{0902}: **108** {092F}{093E} {0928}{091C}{0926}{0940}{0915}{0940} {0938}{094D}{0935}{093E}{0938}{094D}{0925}{094D}{092F} {0915}{0947}{0902}{0926}{094D}{0930} {092A}{0930} {091C}{093E}{090F}{0902}{0964}"
      [] lang = "en" ->
        "{26A0}{FE0F} **EMERGENCY!** This may be a life-threatening situation. Please call an ambulance immediately: **108** or go to the nearest health center."
      [] lang = "mr" ->
        "{26A0}{FE0F} **{0924}{094D}{0935}{0930}{093F}{0924} {092E}{0926}{0924}!** {0939}{0940} {0917}{0902}{092D}{0940}{0930} {0938}{092E}{0938}{094D}{092F}{093E} {0905}{0938}{0942} {0936}{0915}{0924}{0947}. {0915}{0943}{092A}{092F}{093E} {0924}{094D}{0935}{0930}{093F}{0924} {0972}{092E}{094D}{092C}{0941}{0932}{0928}{094D}{0938}{0932}{093E} {0915}{0949}{0932} {0915}{0930}{093E}: **108** {0915}{093F}{0902}{0935}{093E} {091C}{0935}{0933}{091A}{094D}{092F}{093E} {0906}{0930}{094B}{0917}{094D}{092F} {0915}{0947}{0902}{0926}{094D}{0930}{093E}{0924} {091C}{093E}."
      [] lang = "bn" ->
        "{26A0}{FE0F} **{099C}{09B0}{09C1}{09B0}{09C0}!** {098F}{099F}{09BF} {098F}{0995}{099F}{09BF} {099C}{09C0}{09AC}{09A8}-{09B9}{09C1}{09AE}{0995}{09BF}{09B0} {09AA}{09B0}{09BF}{09B8}{09CD}{09A5}{09BF}{09A4}{09BF} {09B9}{09A4}{09C7} {09AA}{09BE}{09B0}{09C7}{0964} {0985}{09AC}{09BF}{09B2}{09AE}{09CD}{09AC}{09C7} {0985}{09CD}{09AF}{09BE}{09AE}{09CD}{09AC}{09C1}{09B2}{09C7}{09A8}{09CD}{09B8}{0995}{09C7} {0995}{09B2} {0995}{09B0}{09C1}{09A8}: **108** {0985}{09A5}{09AC}{09BE} {09A8}{09BF}{0995}{099F}{09B8}{09CD}{09A5} {09B8}{09CD}{09AC}{09BE}{09B8}{09CD}{09A5}{09CD}{09AF}{0995}{09C7}{09A8}{09CD}{09A6}{09CD}{09B0}{09C7} {09AF}{09BE}{09A8}{0964}"

(***************************************************************************)
(* Python string methods, on strings.                                       *)
(***************************************************************************)
Range(s) == { s[i] : i \in DOMAIN s }

\* A string stands for a Python str: a printable ASCII character stands
\* for itself, and any other character is written as its code point in
\* upper-case hexadecimal between braces, at least four digits ({0928},
\* {1F5FA}).  The string methods below work on characters, not on the
\* symbols of this notation.

\* the i-th symbol of s, as a string of length one
Char(s, i) == SubSeq(s, i, i)

HexDigits == "0123456789ABCDEF"

HexChars == { Char(HexDigits, k) : k \in 1..Len(HexDigits) }

IsHex(c) == c \in HexChars

\* the value of a hexadecimal digit
HexVal(c) == (CHOOSE k \in 1..Len(HexDigits) : Char(HexDigits, k) = c) - 1

\* the number of symbols of the character that starts at position i of s
CharLenAt(s, i) ==
    IF Char(s, i) = "{"
          /\ \E n \in 4..6 :
                /\ i + n + 1 <= Len(s)
                /\ \A k \in (i + 1)..(i + n) : IsHex(Char(s, k))
                /\ Char(s, i + n + 1) = "}"
    THEN (CHOOSE n \in 4..6 :
                /\ i + n + 1 <= Len(s)
                /\ \A k \in (i + 1)..(i + n) : IsHex(Char(s, k))
                /\ Char(s, i + n + 1) = "}") + 2
    ELSE 1

\* the positions of s where a character starts
Starts(s) ==
    { i \in 1..Len(s) :
        \A k \in (i - 7)..(i - 1) : k >= 1 => k + CharLenAt(s, k) <= i }

\* the character of s that starts at position i
CharAt(s, i) == SubSeq(s, i, i + CharLenAt(s, i) - 1)

\* the code point of a character written between braces
RECURSIVE HexNumber(_)
HexNumber(digits) ==
    IF Len(digits) = 0 THEN 0
    ELSE 16 * HexNumber(SubSeq(digits, 1, Len(digits) - 1))
            + HexVal(Char(digits, Len(digits)))

CodePoint(c) == HexNumber(SubSeq(c, 2, Len(c) - 1))

\* the hexadecimal digits of n
RECURSIVE HexOf(_)
HexOf(n) ==
    IF n < 16 THEN Char(HexDigits, n + 1)
    ELSE HexOf(n \div 16) \o Char(HexDigits, (n % 16) + 1)

Upper == "ABCDEFGHIJKLMNOPQRSTUVWXYZ"
Lower == "abcdefghijklmnopqrstuvwxyz"

\* the character of code point n: the letter itself for an ASCII letter,
\* the code point between braces otherwise
CharOf(n) ==
    IF n \in 65..90 THEN Char(Upper, n - 64)
    ELSE IF n \in 97..122 THEN Char(Lower, n - 96)
    ELSE LET h == HexOf(n)
         IN  "{" \o SubSeq("000", 1, IF Len(h) < 4 THEN 4 - Len(h) ELSE 0)
                 \o h \o "}"

\* The case pairs str.lower() follows (Unicode 14.0): each entry << lo, hi,
\* step, d >> says that the code points lo, lo + step, ... up to hi have
\* the lower case n + d.
LowerRuns ==
    <<
       <<65, 90, 1, 32>>, <<192, 214, 1, 32>>, <<216, 222, 1, 32>>,
       <<256, 302, 2, 1>>, <<306, 310, 2, 1>>, <<313, 327, 2, 1>>,
       <<330, 374, 2, 1>>, <<376, 376, 1, -121>>, <<377, 381, 2, 1>>,
       <<385, 385, 1, 210>>, <<386, 388, 2, 1>>, <<390, 390, 1, 206>>,
       <<391, 391, 1, 1>>, <<393, 394, 1, 205>>, <<395, 395, 1, 1>>,
       <<398, 398, 1, 79>>, <<399, 399, 1, 202>>, <<400, 400, 1, 203>>,
       <<401, 401, 1, 1>>, <<403, 403, 1, 205>>, <<404, 404, 1, 207>>,
       <<406, 406, 1, 211>>, <<407, 407, 1, 209>>, <<408, 408, 1, 1>>,
       <<412, 412, 1, 211>>, <<413, 413, 1, 213>>, <<415, 415, 1, 214>>,
       <<416, 420, 2, 1>>, <<422, 422, 1, 218>>, <<423, 423, 1, 1>>,
       <<425, 425, 1, 218>>, <<428, 428, 1, 1>>, <<430, 430, 1, 218>>,
       <<431, 431, 1, 1>>, <<433, 434, 1, 217>>, <<435, 437, 2, 1>>,
       <<439, 439, 1, 219>>, <<440, 440, 1, 1>>, <<444, 444, 1, 1>>,
       <<452, 452, 1, 2>>, <<453, 453, 1, 1>>, <<455, 455, 1, 2>>,
       <<456, 456, 1, 1>>, <<458, 458, 1, 2>>, <<459, 475, 2, 1>>,
       <<478, 494, 2, 1>>, <<497, 497, 1, 2>>, <<498, 500, 2, 1>>,
       <<502, 502, 1, -97>>, <<503, 503, 1, -56>>, <<504, 542, 2, 1>>,
       <<544, 544, 1, -130>>, <<546, 562, 2, 1>>, <<570, 570, 1,
       10795>>, <<571, 571, 1, 1>>, <<573, 573, 1, -163>>, <<574, 574,
       1, 10792>>, <<577, 577, 1, 1>>, <<579, 579, 1, -195>>, <<580,
       580, 1, 69>>, <<581, 581, 1, 71>>, <<582, 590, 2, 1>>, <<880,
       882, 2, 1>>, <<886, 886, 1, 1>>, <<895, 895, 1, 116>>, <<902,
       902, 1, 38>>, <<904, 906, 1, 37>>, <<908, 908, 1, 64>>, <<910,
       911, 1, 63>>, <<913, 929, 1, 32>>, <<931, 939, 1, 32>>, <<975,
       975, 1, 8>>, <<984, 1006, 2, 1>>, <<1012, 1012, 1, -60>>, <<1015,
       1015, 1, 1>>, <<1017, 1017, 1, -7>>, <<1018, 1018, 1, 1>>,
       <<1021, 1023, 1, -130>>, <<1024, 1039, 1, 80>>, <<1040, 1071, 1,
       32>>, <<1120, 1152, 2, 1>>, <<1162, 1214, 2, 1>>, <<1216, 1216,
       1, 15>>, <<1217, 1229, 2, 1>>, <<1232, 1326, 2, 1>>, <<1329,
       1366, 1, 48>>, <<4256, 4293, 1, 7264>>, <<4295, 4295, 1, 7264>>,
       <<4301, 4301, 1, 7264>>, <<5024, 5103, 1, 38864>>, <<5104, 5109,
       1, 8>>, <<7312, 7354, 1, -3008>>, <<7357, 7359, 1, -3008>>,
       <<7680, 7828, 2, 1>>, <<7838, 7838, 1, -7615>>, <<7840, 7934, 2,
       1>>, <<7944, 7951, 1, -8>>, <<7960, 7965, 1, -8>>, <<7976, 7983,
       1, -8>>, <<7992, 7999, 1, -8>>, <<8008, 8013, 1, -8>>, <<8025,
       8031, 2, -8>>, <<8040, 8047, 1, -8>>, <<8072, 8079, 1, -8>>,
       <<8088, 8095, 1, -8>>, <<8104, 8111, 1, -8>>, <<8120, 8121, 1,
       -8>>, <<8122, 8123, 1, -74>>, <<8124, 8124, 1, -9>>, <<8136,
       8139, 1, -86>>, <<8140, 8140, 1, -9>>, <<8152, 8153, 1, -8>>,
       <<8154, 8155, 1, -100>>, <<8168, 8169, 1, -8>>, <<8170, 8171, 1,
       -112>>, <<8172, 8172, 1, -7>>, <<8184, 8185, 1, -128>>, <<8186,
       8187, 1, -126>>, <<8188, 8188, 1, -9>>, <<8486, 8486, 1, -7517>>,
       <<8490, 8490, 1, -8383>>, <<8491, 8491, 1, -8262>>, <<8498, 8498,
       1, 28>>, <<8544, 8559, 1, 16>>, <<8579, 8579, 1, 1>>, <<9398,
       9423, 1, 26>>, <<11264, 11311, 1, 48>>, <<11360, 11360, 1, 1>>,
       <<11362, 11362, 1, -10743>>, <<11363, 11363, 1, -3814>>, <<11364,
       11364, 1, -10727>>, <<11367, 11371, 2, 1>>, <<11373, 11373, 1,
       -10780>>, <<11374, 11374, 1, -10749>>, <<11375, 11375, 1,
       -10783>>, <<11376, 11376, 1, -10782>>, <<11378, 11378, 1, 1>>,
       <<11381, 11381, 1, 1>>, <<11390, 11391, 1, -10815>>, <<11392,
       11490, 2, 1>>, <<11499, 11501, 2, 1>>, <<11506, 11506, 1, 1>>,
       <<42560, 42604, 2, 1>>, <<42624, 42650, 2, 1>>, <<42786, 42798,
       2, 1>>, <<42802, 42862, 2, 1>>, <<42873, 42875, 2, 1>>, <<42877,
       42877, 1, -35332>>, <<42878, 42886, 2, 1>>, <<42891, 42891, 1,
       1>>, <<42893, 42893, 1, -42280>>, <<42896, 42898, 2, 1>>,
       <<42902, 42920, 2, 1>>, <<42922, 42922, 1, -42308>>, <<42923,
       42923, 1, -42319>>, <<42924, 42924, 1, -42315>>, <<42925, 42925,
       1, -42305>>, <<42926, 42926, 1, -42308>>, <<42928, 42928, 1,
       -42258>>, <<42929, 42929, 1, -42282>>, <<42930, 42930, 1,
       -42261>>, <<42931, 42931, 1, 928>>, <<42932, 42946, 2, 1>>,
       <<42948, 42948, 1, -48>>, <<42949, 42949, 1, -42307>>, <<42950,
       42950, 1, -35384>>, <<42951, 42953, 2, 1>>, <<42960, 42960, 1,
       1>>, <<42966, 42968, 2, 1>>, <<42997, 42997, 1, 1>>, <<65313,
       65338, 1, 32>>, <<66560, 66599, 1, 40>>, <<66736, 66771, 1, 40>>,
       <<66928, 66938, 1, 39>>, <<66940, 66954, 1, 39>>, <<66956, 66962,
       1, 39>>, <<66964, 66965, 1, 39>>, <<68736, 68786, 1, 64>>,
       <<71840, 71871, 1, 32>>, <<93760, 93791, 1, 32>>, <<125184,
       125217, 1, 34>>
    >>

\* the ranges << lo, hi >> of the cased code points (upper, lower and title
\* case letters) that are not case-ignorable
CasedRanges ==
    <<
       <<65, 90>>, <<97, 122>>, <<170, 170>>, <<181, 181>>, <<186,
       186>>, <<192, 214>>, <<216, 246>>, <<248, 442>>, <<444, 447>>,
       <<452, 659>>, <<661, 687>>, <<880, 883>>, <<886, 887>>, <<891,
       893>>, <<895, 895>>, <<902, 902>>, <<904, 906>>, <<908, 908>>,
       <<910, 929>>, <<931, 1013>>, <<1015, 1153>>, <<1162, 1327>>,
       <<1329, 1366>>, <<1376, 1416>>, <<4256, 4293>>, <<4295, 4295>>,
       <<4301, 4301>>, <<4304, 4346>>, <<4349, 4351>>, <<5024, 5109>>,
       <<5112, 5117>>, <<7296, 7304>>, <<7312, 7354>>, <<7357, 7359>>,
       <<7424, 7467>>, <<7531, 7543>>, <<7545, 7578>>, <<7680, 7957>>,
       <<7960, 7965>>, <<7968, 8005>>, <<8008, 8013>>, <<8016, 8023>>,
       <<8025, 8025>>, <<8027, 8027>>, <<8029, 8029>>, <<8031, 8061>>,
       <<8064, 8116>>, <<8118, 8124>>, <<8126, 8126>>, <<8130, 8132>>,
       <<8134, 8140>>, <<8144, 8147>>, <<8150, 8155>>, <<8160, 8172>>,
       <<8178, 8180>>, <<8182, 8188>>, <<8450, 8450>>, <<8455, 8455>>,
       <<8458, 8467>>, <<8469, 8469>>, <<8473, 8477>>, <<8484, 8484>>,
       <<8486, 8486>>, <<8488, 8488>>, <<8490, 8493>>, <<8495, 8500>>,
       <<8505, 8505>>, <<8508, 8511>>, <<8517, 8521>>, <<8526, 8526>>,
       <<8544, 8575>>, <<8579, 8580>>, <<9398, 9449>>, <<11264, 11387>>,
       <<11390, 11492>>, <<11499, 11502>>, <<11506, 11507>>, <<11520,
       11557>>, <<11559, 11559>>, <<11565, 11565>>, <<42560, 42605>>,
       <<42624, 42651>>, <<42786, 42863>>, <<42865, 42887>>, <<42891,
       42894>>, <<42896, 42954>>, <<42960, 42961>>, <<42963, 42963>>,
       <<42965, 42969>>, <<42997, 42998>>, <<43002, 43002>>, <<43824,
       43866>>, <<43872, 43880>>, <<43888, 43967>>, <<64256, 64262>>,
       <<64275, 64279>>, <<65313, 65338>>, <<65345, 65370>>, <<66560,
       66639>>, <<66736, 66771>>, <<66776, 66811>>, <<66928, 66938>>,
       <<66940, 66954>>, <<66956, 66962>>, <<66964, 66965>>, <<66967,
       66977>>, <<66979, 66993>>, <<66995, 67001>>, <<67003, 67004>>,
       <<68736, 68786>>, <<68800, 68850>>, <<71840, 71903>>, <<93760,
       93823>>, <<119808, 119892>>, <<119894, 119964>>, <<119966,
       119967>>, <<119970, 119970>>, <<119973, 119974>>, <<119977,
       119980>>, <<119982, 119993>>, <<119995, 119995>>, <<119997,
       120003>>, <<120005, 120069>>, <<120071, 120074>>, <<120077,
       120084>>, <<120086, 120092>>, <<120094, 120121>>, <<120123,
       120126>>, <<120128, 120132>>, <<120134, 120134>>, <<120138,
       120144>>, <<120146, 120485>>, <<120488, 120512>>, <<120514,
       120538>>, <<120540, 120570>>, <<120572, 120596>>, <<120598,
       120628>>, <<120630, 120654>>, <<120656, 120686>>, <<120688,
       120712>>, <<120714, 120744>>, <<120746, 120770>>, <<120772,
       120779>>, <<122624, 122633>>, <<122635, 122654>>, <<125184,
       125251>>, <<127280, 127305>>, <<127312, 127337>>, <<127344,
       127369>>
    >>

\* the ranges << lo, hi >> of the case-ignorable code points (marks,
\* modifiers, format characters, the apostrophe, the full stop ...)
CaseIgnorableRanges ==
    <<
       <<39, 39>>, <<46, 46>>, <<58, 58>>, <<94, 94>>, <<96, 96>>,
       <<168, 168>>, <<173, 173>>, <<175, 175>>, <<180, 180>>, <<183,
       184>>, <<688, 879>>, <<884, 885>>, <<890, 890>>, <<900, 901>>,
       <<903, 903>>, <<1155, 1161>>, <<1369, 1369>>, <<1375, 1375>>,
       <<1425, 1469>>, <<1471, 1471>>, <<1473, 1474>>, <<1476, 1477>>,
       <<1479, 1479>>, <<1524, 1524>>, <<1536, 1541>>, <<1552, 1562>>,
       <<1564, 1564>>, <<1600, 1600>>, <<1611, 1631>>, <<1648, 1648>>,
       <<1750, 1757>>, <<1759, 1768>>, <<1770, 1773>>, <<1807, 1807>>,
       <<1809, 1809>>, <<1840, 1866>>, <<1958, 1968>>, <<2027, 2037>>,
       <<2042, 2042>>, <<2045, 2045>>, <<2070, 2093>>, <<2137, 2139>>,
       <<2184, 2184>>, <<2192, 2193>>, <<2200, 2207>>, <<2249, 2306>>,
       <<2362, 2362>>, <<2364, 2364>>, <<2369, 2376>>, <<2381, 2381>>,
       <<2385, 2391>>, <<2402, 2403>>, <<2417, 2417>>, <<2433, 2433>>,
       <<2492, 2492>>, <<2497, 2500>>, <<2509, 2509>>, <<2530, 2531>>,
       <<2558, 2558>>, <<2561, 2562>>, <<2620, 2620>>, <<2625, 2626>>,
       <<2631, 2632>>, <<2635, 2637>>, <<2641, 2641>>, <<2672, 2673>>,
       <<2677, 2677>>, <<2689, 2690>>, <<2748, 2748>>, <<2753, 2757>>,
       <<2759, 2760>>, <<2765, 2765>>, <<2786, 2787>>, <<2810, 2815>>,
       <<2817, 2817>>, <<2876, 2876>>, <<2879, 2879>>, <<2881, 2884>>,
       <<2893, 2893>>, <<2901, 2902>>, <<2914, 2915>>, <<2946, 2946>>,
       <<3008, 3008>>, <<3021, 3021>>, <<3072, 3072>>, <<3076, 3076>>,
       <<3132, 3132>>, <<3134, 3136>>, <<3142, 3144>>, <<3146, 3149>>,
       <<3157, 3158>>, <<3170, 3171>>, <<3201, 3201>>, <<3260, 3260>>,
       <<3263, 3263>>, <<3270, 3270>>, <<3276, 3277>>, <<3298, 3299>>,
       <<3328, 3329>>, <<3387, 3388>>, <<3393, 3396>>, <<3405, 3405>>,
       <<3426, 3427>>, <<3457, 3457>>, <<3530, 3530>>, <<3538, 3540>>,
       <<3542, 3542>>, <<3633, 3633>>, <<3636, 3642>>, <<3654, 3662>>,
       <<3761, 3761>>, <<3764, 3772>>, <<3782, 3782>>, <<3784, 3789>>,
       <<3864, 3865>>, <<3893, 3893>>, <<3895, 3895>>, <<3897, 3897>>,
       <<3953, 3966>>, <<3968, 3972>>, <<3974, 3975>>, <<3981, 3991>>,
       <<3993, 4028>>, <<4038, 4038>>, <<4141, 4144>>, <<4146, 4151>>,
       <<4153, 4154>>, <<4157, 4158>>, <<4184, 4185>>, <<4190, 4192>>,
       <<4209, 4212>>, <<4226, 4226>>, <<4229, 4230>>, <<4237, 4237>>,
       <<4253, 4253>>, <<4348, 4348>>, <<4957, 4959>>, <<5906, 5908>>,
       <<5938, 5939>>, <<5970, 5971>>, <<6002, 6003>>, <<6068, 6069>>,
       <<6071, 6077>>, <<6086, 6086>>, <<6089, 6099>>, <<6103, 6103>>,
       <<6109, 6109>>, <<6155, 6159>>, <<6211, 6211>>, <<6277, 6278>>,
       <<6313, 6313>>, <<6432, 6434>>, <<6439, 6440>>, <<6450, 6450>>,
       <<6457, 6459>>, <<6679, 6680>>, <<6683, 6683>>, <<6742, 6742>>,
       <<6744, 6750>>, <<6752, 6752>>, <<6754, 6754>>, <<6757, 6764>>,
       <<6771, 6780>>, <<6783, 6783>>, <<6823, 6823>>, <<6832, 6862>>,
       <<6912, 6915>>, <<6964, 6964>>, <<6966, 6970>>, <<6972, 6972>>,
       <<6978, 6978>>, <<7019, 7027>>, <<7040, 7041>>, <<7074, 7077>>,
       <<7080, 7081>>, <<7083, 7085>>, <<7142, 7142>>, <<7144, 7145>>,
       <<7149, 7149>>, <<7151, 7153>>, <<7212, 7219>>, <<7222, 7223>>,
       <<7288, 7293>>, <<7376, 7378>>, <<7380, 7392>>, <<7394, 7400>>,
       <<7405, 7405>>, <<7412, 7412>>, <<7416, 7417>>, <<7468, 7530>>,
       <<7544, 7544>>, <<7579, 7679>>, <<8125, 8125>>, <<8127, 8129>>,
       <<8141, 8143>>, <<8157, 8159>>, <<8173, 8175>>, <<8189, 8190>>,
       <<8203, 8207>>, <<8216, 8217>>, <<8228, 8228>>, <<8231, 8231>>,
       <<8234, 8238>>, <<8288, 8292>>, <<8294, 8303>>, <<8305, 8305>>,
       <<8319, 8319>>, <<8336, 8348>>, <<8400, 8432>>, <<11388, 11389>>,
       <<11503, 11505>>, <<11631, 11631>>, <<11647, 11647>>, <<11744,
       11775>>, <<11823, 11823>>, <<12293, 12293>>, <<12330, 12333>>,
       <<12337, 12341>>, <<12347, 12347>>, <<12441, 12446>>, <<12540,
       12542>>, <<40981, 40981>>, <<42232, 42237>>, <<42508, 42508>>,
       <<42607, 42610>>, <<42612, 42621>>, <<42623, 42623>>, <<42652,
       42655>>, <<42736, 42737>>, <<42752, 42785>>, <<42864, 42864>>,
       <<42888, 42890>>, <<42994, 42996>>, <<43000, 43001>>, <<43010,
       43010>>, <<43014, 43014>>, <<43019, 43019>>, <<43045, 43046>>,
       <<43052, 43052>>, <<43204, 43205>>, <<43232, 43249>>, <<43263,
       43263>>, <<43302, 43309>>, <<43335, 43345>>, <<43392, 43394>>,
       <<43443, 43443>>, <<43446, 43449>>, <<43452, 43453>>, <<43471,
       43471>>, <<43493, 43494>>, <<43561, 43566>>, <<43569, 43570>>,
       <<43573, 43574>>, <<43587, 43587>>, <<43596, 43596>>, <<43632,
       43632>>, <<43644, 43644>>, <<43696, 43696>>, <<43698, 43700>>,
       <<43703, 43704>>, <<43710, 43711>>, <<43713, 43713>>, <<43741,
       43741>>, <<43756, 43757>>, <<43763, 43764>>, <<43766, 43766>>,
       <<43867, 43871>>, <<43881, 43883>>, <<44005, 44005>>, <<44008,
       44008>>, <<44013, 44013>>, <<64286, 64286>>, <<64434, 64450>>,
       <<65024, 65039>>, <<65043, 65043>>, <<65056, 65071>>, <<65106,
       65106>>, <<65109, 65109>>, <<65279, 65279>>, <<65287, 65287>>,
       <<65294, 65294>>, <<65306, 65306>>, <<65342, 65342>>, <<65344,
       65344>>, <<65392, 65392>>, <<65438, 65439>>, <<65507, 65507>>,
       <<65529, 65531>>, <<66045, 66045>>, <<66272, 66272>>, <<66422,
       66426>>, <<67456, 67461>>, <<67463, 67504>>, <<67506, 67514>>,
       <<68097, 68099>>, <<68101, 68102>>, <<68108, 68111>>, <<68152,
       68154>>, <<68159, 68159>>, <<68325, 68326>>, <<68900, 68903>>,
       <<69291, 69292>>, <<69446, 69456>>, <<69506, 69509>>, <<69633,
       69633>>, <<69688, 69702>>, <<69744, 69744>>, <<69747, 69748>>,
       <<69759, 69761>>, <<69811, 69814>>, <<69817, 69818>>, <<69821,
       69821>>, <<69826, 69826>>, <<69837, 69837>>, <<69888, 69890>>,
       <<69927, 69931>>, <<69933, 69940>>, <<70003, 70003>>, <<70016,
       70017>>, <<70070, 70078>>, <<70089, 70092>>, <<70095, 70095>>,
       <<70191, 70193>>, <<70196, 70196>>, <<70198, 70199>>, <<70206,
       70206>>, <<70367, 70367>>, <<70371, 70378>>, <<70400, 70401>>,
       <<70459, 70460>>, <<70464, 70464>>, <<70502, 70508>>, <<70512,
       70516>>, <<70712, 70719>>, <<70722, 70724>>, <<70726, 70726>>,
       <<70750, 70750>>, <<70835, 70840>>, <<70842, 70842>>, <<70847,
       70848>>, <<70850, 70851>>, <<71090, 71093>>, <<71100, 71101>>,
       <<71103, 71104>>, <<71132, 71133>>, <<71219, 71226>>, <<71229,
       71229>>, <<71231, 71232>>, <<71339, 71339>>, <<71341, 71341>>,
       <<71344, 71349>>, <<71351, 71351>>, <<71453, 71455>>, <<71458,
       71461>>, <<71463, 71467>>, <<71727, 71735>>, <<71737, 71738>>,
       <<71995, 71996>>, <<71998, 71998>>, <<72003, 72003>>, <<72148,
       72151>>, <<72154, 72155>>, <<72160, 72160>>, <<72193, 72202>>,
       <<72243, 72248>>, <<72251, 72254>>, <<72263, 72263>>, <<72273,
       72278>>, <<72281, 72283>>, <<72330, 72342>>, <<72344, 72345>>,
       <<72752, 72758>>, <<72760, 72765>>, <<72767, 72767>>, <<72850,
       72871>>, <<72874, 72880>>, <<72882, 72883>>, <<72885, 72886>>,
       <<73009, 73014>>, <<73018, 73018>>, <<73020, 73021>>, <<73023,
       73029>>, <<73031, 73031>>, <<73104, 73105>>, <<73109, 73109>>,
       <<73111, 73111>>, <<73459, 73460>>, <<78896, 78904>>, <<92912,
       92916>>, <<92976, 92982>>, <<92992, 92995>>, <<94031, 94031>>,
       <<94095, 94111>>, <<94176, 94177>>, <<94179, 94180>>, <<110576,
       110579>>, <<110581, 110587>>, <<110589, 110590>>, <<113821,
       113822>>, <<113824, 113827>>, <<118528, 118573>>, <<118576,
       118598>>, <<119143, 119145>>, <<119155, 119170>>, <<119173,
       119179>>, <<119210, 119213>>, <<119362, 119364>>, <<121344,
       121398>>, <<121403, 121452>>, <<121461, 121461>>, <<121476,
       121476>>, <<121499, 121503>>, <<121505, 121519>>, <<122880,
       122886>>, <<122888, 122904>>, <<122907, 122913>>, <<122915,
       122916>>, <<122918, 122922>>, <<123184, 123197>>, <<123566,
       123566>>, <<123628, 123631>>, <<125136, 125142>>, <<125252,
       125259>>, <<127995, 127999>>, <<917505, 917505>>, <<917536,
       917631>>, <<917760, 917999>>
    >>

\* code point n is one of those entry run of LowerRuns is about
InRun(n, run) == n \in run[1]..run[2] /\ (n - run[1]) % run[3] = 0

\* code point n lies in one of the ranges
InRanges(n, ranges) ==
    \E i \in DOMAIN ranges : n \in ranges[i][1]..ranges[i][2]

\* the lower-case code point of code point n (n itself where there is none)
LowerCode(n) ==
    IF \E i \in DOMAIN LowerRuns : InRun(n, LowerRuns[i])
    THEN n + LowerRuns[CHOOSE i \in DOMAIN LowerRuns :
                            InRun(n, LowerRuns[i])][4]
    ELSE n

\* the code points above ASCII that have a lower case of their own
UpperCodes ==
    UNION { { n \in LowerRuns[i][1]..LowerRuns[i][2] :
                InRun(n, LowerRuns[i]) } : i \in DOMAIN LowerRuns }
        \ (0..127)

\* the characters above ASCII that have a lower case of their own
UpperChars == { CharOf(n) : n \in UpperCodes }

\* the characters above ASCII with their lower case
LowerTable == [c \in UpperChars |-> CharOf(LowerCode(CodePoint(c)))]

\* str.lower() on a string of one character
LowerChar(c) ==
    IF Len(c) = 1
    THEN IF \E i \in 1..Len(Upper) : Char(Upper, i) = c
         THEN Char(Lower, CHOOSE i \in 1..Len(Upper) : Char(Upper, i) = c)
         ELSE c
    ELSE IF c = "{0130}" THEN "i{0307}"
    ELSE IF c \in UpperChars THEN LowerTable[c]
    ELSE c

AsciiLetters == { Char(Upper \o Lower, k) : k \in 1..Len(Upper \o Lower) }

\* the grave accent, also case-ignorable, is written {0060}
AsciiCaseIgnorable == { "'", ".", ":", "^" }

\* the character is cased and not case-ignorable
IsCased(c) ==
    IF Len(c) = 1 THEN c \in AsciiLetters
    ELSE InRanges(CodePoint(c), CasedRanges)

IsCaseIgnorable(c) ==
    IF Len(c) = 1 THEN c \in AsciiCaseIgnorable
    ELSE InRanges(CodePoint(c), CaseIgnorableRanges)

\* the number of symbols of the character that ends at position j of s
CharLenTo(s, j) ==
    IF Char(s, j) = "}"
          /\ \E n \in 6..8 : j - n + 1 >= 1 /\ CharLenAt(s, j - n + 1) = n
    THEN CHOOSE n \in 6..8 : j - n + 1 >= 1 /\ CharLenAt(s, j - n + 1) = n
    ELSE 1

\* the nearest character of s at or before position j that is not
\* case-ignorable is cased
RECURSIVE cased_before(_, _)
cased_before(s, j) ==
    IF j < 1 THEN FALSE
    ELSE LET c == SubSeq(s, j - CharLenTo(s, j) + 1, j)
         IN  IF IsCaseIgnorable(c) THEN cased_before(s, j - Len(c))
             ELSE IsCased(c)

\* the nearest character of s at or after position i that is not
\* case-ignorable is cased
RECURSIVE cased_after(_, _)
cased_after(s, i) ==
    IF i > Len(s) THEN FALSE
    ELSE LET c == CharAt(s, i)
         IN  IF IsCaseIgnorable(c) THEN cased_after(s, i + Len(c))
             ELSE IsCased(c)

\* the capital sigma at position i of s ends a word: its lower case is the
\* final sigma
final_sigma(s, i) ==
    cased_before(s, i - 1) /\ ~cased_after(s, i + CharLenAt(s, i))

\* str.lower() of the part of s from position i on, character by character
RECURSIVE lower_from(_, _)
lower_from(s, i) ==
    IF i > Len(s) THEN ""
    ELSE LET c == CharAt(s, i)
         IN  (IF c = "{03A3}" /\ Len(s) > Len(c)
              THEN (IF final_sigma(s, i) THEN "{03C2}" ELSE "{03C3}")
              ELSE LowerChar(c))
                \o lower_from(s, i + Len(c))

\* str.lower()
str_lower(s) == lower_from(s, 1)

\* the code points str.isspace() holds of
SpaceCodes ==
    (9..13) \cup (28..32) \cup { 133, 160, 5760 } \cup (8192..8202)
        \cup { 8232, 8233, 8239, 8287, 12288 }

\* the characters str.isspace() holds of, which str.strip() removes
SpaceChars ==
    { " ", "\t", "\n", "\r", "\f" } \cup { CharOf(n) : n \in SpaceCodes }

IsSpace(c) == c \in SpaceChars

\* the position of the first character of s, from position i on, that is
\* not whitespace (Len(s) + 1 if there is none)
RECURSIVE lstrip_from(_, _)
lstrip_from(s, i) ==
    IF i > Len(s) THEN i
    ELSE IF IsSpace(CharAt(s, i)) THEN lstrip_from(s, i + CharLenAt(s, i))
    ELSE i

\* the position where the last character of s, up to position j, that is
\* not whitespace ends (lo - 1 if there is none from lo on)
RECURSIVE rstrip_to(_, _, _)
rstrip_to(s, j, lo) ==
    IF j < lo THEN j
    ELSE IF IsSpace(SubSeq(s, j - CharLenTo(s, j) + 1, j))
    THEN rstrip_to(s, j - CharLenTo(s, j), lo)
    ELSE j

\* str.strip(): leading and trailing whitespace removed
str_strip(s) ==
    LET lo == lstrip_from(s, 1)
    IN  SubSeq(s, lo, rstrip_to(s, Len(s), lo))

\* Python's  w in s  on strings
str_in(w, s) ==
    \E i \in 1..(Len(s) - Len(w) + 1) :
        /\ SubSeq(s, i, i + Len(w) - 1) = w
        /\ i \in Starts(s)
        /\ i + Len(w) <= Len(s) => i + Len(w) \in Starts(s)

\* str.replace(a, b) for one-character a, by halves
RECURSIVE str_replace(_, _, _)
str_replace(s, a, b) ==
    IF Len(s) = 0 THEN ""
    ELSE IF Len(s) = 1 THEN (IF s = a THEN b ELSE s)
    ELSE LET m == Len(s) \div 2
         IN  str_replace(SubSeq(s, 1, m), a, b)
                \o str_replace(SubSeq(s, m + 1, Len(s)), a, b)

\* whether s starts with p
str_startswith(s, p) == Len(p) <= Len(s) /\ SubSeq(s, 1, Len(p)) = p

(***************************************************************************)
(* Core utilities.                                                          *)
(***************************************************************************)
\* detect_language: d is what langdetect's detect gives for the text, a
\* language code or "error" when it raises
\* the detected code returned as it is
detect_language_unchecked(d) == IF d = "error" THEN "en" ELSE d

detect_language(d) ==
    IF d \in Range(SUPPORTED_LANGS) THEN d ELSE "en"

localized_query(lang) ==
    CASE lang = "hi" ->
        "{0928}{091C}{0926}{0940}{0915}{0940} {0938}{094D}{0935}{093E}{0938}{094D}{0925}{094D}{092F} {0915}{0947}{0902}{0926}{094D}{0930}"
      [] lang = "en" ->
        "health center near me"
      [] lang = "mr" ->
        "{091C}{0935}{0933}{091A}{0947} {0906}{0930}{094B}{0917}{094D}{092F} {0915}{0947}{0902}{0926}{094D}{0930}"
      [] lang = "bn" ->
        "{09A8}{09BF}{0995}{099F}{09B8}{09CD}{09A5} {09B8}{09CD}{09AC}{09BE}{09B8}{09CD}{09A5}{09CD}{09AF}{0995}{09C7}{09A8}{09CD}{09A6}{09CD}{09B0}"
      [] OTHER ->
        "health center near me"

generate_maps_link(lang) ==
    "https://www.google.com/maps/search/?api=1&query="
        \o str_replace(localized_query(lang), " ", "+")

fallback_message(lang) ==
    CASE lang = "hi" ->
        "{092E}{093E}{092B}{093C} {0915}{0940}{091C}{093F}{090F}, {092E}{0948}{0902} {0905}{092D}{0940} {091C}{0935}{093E}{092C} {0928}{0939}{0940}{0902} {0926}{0947} {092A}{093E} {0930}{0939}{093E} {0939}{0942}{0901}{0964} {0915}{0943}{092A}{092F}{093E} {092C}{093E}{0926} {092E}{0947}{0902} {092A}{094D}{0930}{092F}{093E}{0938} {0915}{0930}{0947}{0902}{0964}"
      [] lang = "en" ->
        "Sorry, I couldn't process that right now. Please try again later."
      [] lang = "mr" ->
        "{092E}{093E}{092B} {0915}{0930}{093E}, {092E}{0940} {0938}{0927}{094D}{092F}{093E} {0909}{0924}{094D}{0924}{0930} {0926}{0947}{090A} {0936}{0915}{0924} {0928}{093E}{0939}{0940}. {0915}{0943}{092A}{092F}{093E} {0928}{0902}{0924}{0930} {092A}{094D}{0930}{092F}{0924}{094D}{0928} {0915}{0930}{093E}."
      [] lang = "bn" ->
        "{09A6}{09C1}{0983}{0996}{09BF}{09A4}, {0986}{09AE}{09BF} {098F}{0996}{09A8} {0989}{09A4}{09CD}{09A4}{09B0} {09A6}{09BF}{09A4}{09C7} {09AA}{09BE}{09B0}{099B}{09BF} {09A8}{09BE}{0964} {09AA}{09B0}{09C7} {0986}{09AC}{09BE}{09B0} {099A}{09C7}{09B7}{09CD}{099F}{09BE} {0995}{09B0}{09C1}{09A8}{0964}"
      [] OTHER ->
        "Sorry, please try again later."

welcome_text(lang) ==
    CASE lang = "hi" ->
        "{0928}{092E}{0938}{094D}{0924}{0947}! {092E}{0948}{0902} {0906}{092A}{0915}{093E} AI {0938}{094D}{0935}{093E}{0938}{094D}{0925}{094D}{092F} {0938}{0939}{093E}{092F}{0915} {0939}{0942}{0901}{0964} {0915}{0943}{092A}{092F}{093E} {0905}{092A}{0928}{0947} {0938}{094D}{0935}{093E}{0938}{094D}{0925}{094D}{092F} {0938}{0902}{092C}{0902}{0927}{0940} {0938}{0935}{093E}{0932} {092A}{0942}{091B}{0947}{0902}{0964}"
      [] lang = "en" ->
        "Hello! I'm your AI Health Assistant. Please ask your health-related question."
      [] lang = "mr" ->
        "{0928}{092E}{0938}{094D}{0915}{093E}{0930}! {092E}{0940} {0924}{0941}{092E}{091A}{093E} {0906}{0930}{094B}{0917}{094D}{092F} {0938}{0939}{093E}{092F}{094D}{092F}{0915} {0906}{0939}{0947}. {0915}{0943}{092A}{092F}{093E} {0924}{0941}{092E}{091A}{093E} {0906}{0930}{094B}{0917}{094D}{092F} {0938}{0902}{092C}{0902}{0927}{093F}{0924} {092A}{094D}{0930}{0936}{094D}{0928} {0935}{093F}{091A}{093E}{0930}{093E}."
      [] lang = "bn" ->
        "{09B9}{09CD}{09AF}{09BE}{09B2}{09CB}! {0986}{09AE}{09BF} {0986}{09AA}{09A8}{09BE}{09B0} {098F}{0986}{0987} {09B8}{09CD}{09AC}{09BE}{09B8}{09CD}{09A5}{09CD}{09AF} {09B8}{09B9}{0995}{09BE}{09B0}{09C0}{0964} {0986}{09AA}{09A8}{09BE}{09B0} {09B8}{09CD}{09AC}{09BE}{09B8}{09CD}{09A5}{09CD}{09AF} {09B8}{0982}{0995}{09CD}{09B0}{09BE}{09A8}{09CD}{09A4} {09AA}{09CD}{09B0}{09B6}{09CD}{09A8} {099C}{09BF}{099C}{09CD}{099E}{09BE}{09B8}{09BE} {0995}{09B0}{09C1}{09A8}{0964}"
      [] OTHER ->
        "Hello! I'm your AI Health Assistant. Please ask your health-related question."

\* the emergency message with the language dropped
emergency_message_english(lang) == EMERGENCY_MESSAGE("en")

\* EMERGENCY_MESSAGE.get(lang, EMERGENCY_MESSAGE["en"])
emergency_message(lang) ==
    IF lang \in { "hi", "en", "mr", "bn" } THEN EMERGENCY_MESSAGE(lang)
    ELSE EMERGENCY_MESSAGE("en")

\* the welcome banner as it is put in front of the reply
welcome_banner(lang) == "*" \o welcome_text(lang) \o "*\n\n---\n"

\* generate_maps_link for each language a session or a request can have,
\* computed once
MapLinks ==
    [lang \in Range(SUPPORTED_LANGS) \cup { None } |-> generate_maps_link(lang)]

\* the referral block appended after the model's reply
referral_block(lang) ==
    "\n\n---\n{1F5FA}{FE0F} **{0928}{091C}{0926}{0940}{0915}{0940} {0938}{094D}{0935}{093E}{0938}{094D}{0925}{094D}{092F} {0915}{0947}{0902}{0926}{094D}{0930} / Nearby Health Center:** [{0928}{0915}{094D}{0936}{093E} / Map Link]("
        \o MapLinks[lang] \o ")"

EXIT_REPLY == "Conversation ended. You can send a new message to start again."

EMPTY_REPLY ==
    "Sorry, I received an empty message. Please try again or type your question."

\* any(word in incoming_msg_normalized for word in EXIT_WORDS)
is_exit(normalized) == \E w \in Range(EXIT_WORDS) : str_in(w, normalized)

\* any(word in incoming_msg_normalized for word in EMERGENCY_WORDS)
is_emergency(normalized) ==
    \E w \in Range(EMERGENCY_WORDS) : str_in(w, normalized)

\* the normalization with .lower() left out
normalize_case_kept(raw) == str_strip(raw)

\* incoming_msg_raw.lower().strip()
normalize(raw) == str_strip(str_lower(raw))

(***************************************************************************)
(* Inputs of the model.                                                     *)
(***************************************************************************)
\* the From numbers of the users
UserSeq == << "u1", "u2" >>

Users == Range(UserSeq)

\* bodies of inbound text messages
Messages ==
    { "fever", "No",
      "{0926}{092E} {0918}{0941}{091F} {0930}{0939}{093E} {0939}{0948}",
      "Chest pain now ", " {00A0}", "" }

\* what the transcription request returns as response.text
Transcripts ==
    { "fever\f", "{0927}{0928}{094D}{092F}{0935}{093E}{0926}",
      "Heart attac{212A}", " " }

\* what langdetect's detect can give for a text ("error": it raises)
DetectOutcomes == { "en", "hi", "fr", "error" }

\* what one generate_content call of ask_llm can end in: a response text,
\* an APIError, or a requests RequestException
Responses ==
    { [kind |-> "text", text |-> "Rest and drink fluids.{00A0}"],
      [kind |-> "text", text |-> " "],
      [kind |-> "APIError", text |-> ""],
      [kind |-> "RequestException", text |-> ""] }

\* what transcribe_audio_gemini can end in: a response text or an exception
\* (client not configured, download error, decode error, no text)
TranscribeOutcomes ==
    { [kind |-> "text", text |-> t] : t \in Transcripts }
        \cup { [kind |-> "Exception", text |-> ""] }

\* seconds the clock can advance by in one step
TickSteps == { SESSION_TIMEOUT, SESSION_TIMEOUT + 1 }

\* the user of the specifications with one user
SerialUsers == { UserSeq[1] }

\* bodies of the messages of a burst
BurstMessages == { "fever", "No", "chest pain" }

\* the request threads
Reqs == 1..MaxInflight

\* identities of the session dictionaries: one per user in the store and one
\* per request holding a reference
ObjIds == 1..(Cardinality(Users) + MaxInflight)

(***************************************************************************)
(* State.                                                                   *)
(***************************************************************************)
VARIABLES
    gemini_client,   \* whether the Gemini client is configured (not None)
    user_sessions,   \* the session store: user id -> session dictionary
    heap,            \* the session dictionaries, by identity
    now,             \* time.time()
    req,             \* the request threads: position and locals of each
    accepted,        \* requests received so far
    trail,           \* per user, what the properties below need to know of
                     \* the earlier requests; the program keeps no such record
    call             \* the last call of a localized content function made
                     \* on its own: function, argument and result

vars ==
    << gemini_client, user_sessions, heap, now, req, accepted, trail, call >>

\* no call made
NoCall == [fn |-> None, lang |-> None, result |-> ""]

\* a dictionary that no one references
Blank == [lang |-> None, msg_count |-> 0, last_seen |-> 0, history |-> << >>]

\* no response of the model yet
NoResponse == [kind |-> "None", text |-> ""]

\* A thread that serves no request.  Beside the locals of the handlers it
\* holds what the thread did (transcribe_calls: calls of
\* transcribe_audio_gemini, transcription: how the call ended, text or
\* exception, hist0: length of the history when ask_llm was first called,
\* llm_calls: calls of ask_llm made by backoff,
\* criticals: records logged at critical severity, exc: the exception
\* caught by build_conversation_response) and what held when the request
\* arrived (stored, later, live, expired).
IdleReq ==
    [pc |-> "idle", from_number |-> "", incoming_msg_body |-> "",
     is_audio |-> FALSE, user_state |-> Null, user_lang |-> None,
     state |-> Null, is_first_message |-> FALSE, lang |-> None,
     final_response |-> "", llm_state |-> Null, tries |-> 0,
     llm_calls |-> 0, response |-> NoResponse, llm_reply |-> None,
     criticals |-> 0, exc |-> None, reply_text |-> "",
     transcribe_calls |-> 0, transcription |-> None, hist0 |-> -1,
     stored |-> FALSE, later |-> FALSE, live |-> FALSE,
     expired |-> FALSE]

\* the dictionaries that the store or a local of a request refers to
Live(us, rq) ==
    { us[u] : u \in DOMAIN us }
        \cup { rq[r].user_state : r \in Reqs }
        \cup { rq[r].state : r \in Reqs }
        \cup { rq[r].llm_state : r \in Reqs }

\* the identity a dictionary newly built by thread r for user_id gets: any
\* identity not in use will do, and the choice is made the same way each
\* time to keep the states few
NewObj(us, rq, user_id, r) ==
    LET free == ObjIds \ Live(us, rq)
        mine == CHOOSE i \in DOMAIN UserSeq : UserSeq[i] = user_id
    IN  IF mine \in free THEN mine
        ELSE IF Len(UserSeq) + r \in free THEN Len(UserSeq) + r
        ELSE CHOOSE o \in free : \A p \in free : o <= p

\* the next state: store us, dictionaries h, threads rq; a dictionary that
\* is no longer referenced is reclaimed
Install(us, h, rq) ==
    /\ user_sessions' = us
    /\ req' = rq
    /\ heap' = [o \in ObjIds |->
                    IF o \in Live(user_sessions', req') THEN h[o] ELSE Blank]

\* the write made under every key
store_put_everyone(us, user_id, state) == [u \in Users |-> state]

\* user_sessions[user_id] = state
store_put(us, user_id, state) ==
    [u \in DOMAIN us \cup { user_id } |->
        IF u = user_id THEN state ELSE us[u]]

\* the removal left out
store_pop_kept(us, user_id) == us

\* user_sessions.pop(user_id, None)
store_pop(us, user_id) == [u \in DOMAIN us \ { user_id } |-> us[u]]

(***************************************************************************)
(* get_user_state.                                                          *)
(***************************************************************************)
\* the comparison with < in place of <=
session_valid_strict(state, t) == t - state.last_seen < SESSION_TIMEOUT

\* time.time() - state.get("last_seen", 0) <= SESSION_TIMEOUT
session_valid(state, t) == t - state.last_seen <= SESSION_TIMEOUT

\* get_user_state without the lookup: a new dictionary every time
get_user_state_fresh(us, h, rq, user_id, t, r) ==
    LET o == NewObj(us, rq, user_id, r)
    IN  [state |-> o,
         heap  |-> [h EXCEPT ![o] = [lang |-> None, msg_count |-> 0,
                                     last_seen |-> t, history |-> << >>]]]

\* the dictionary returned (state) and the dictionaries afterwards (heap)
get_user_state(us, h, rq, user_id, t, r) ==
    IF user_id \in DOMAIN us /\ session_valid(h[us[user_id]], t)
    THEN [state |-> us[user_id],
          heap  |-> [h EXCEPT ![us[user_id]].last_seen = t]]
    ELSE LET o == NewObj(us, rq, user_id, r)
         IN  [state |-> o,
              heap  |-> [h EXCEPT ![o] = [lang |-> None, msg_count |-> 0,
                                          last_seen |-> t,
                                          history |-> << >>]]]

Init ==
    /\ gemini_client \in BOOLEAN
    /\ user_sessions = [u \in {} |-> Null]
    /\ heap = [o \in ObjIds |-> Blank]
    /\ now = 0
    /\ req = [r \in Reqs |-> IdleReq]
    /\ accepted = 0
    /\ trail = [u \in Users |-> [first |-> FALSE, prev |-> -1]]
    /\ call = NoCall

(***************************************************************************)
(* whatsapp_webhook.                                                        *)
(***************************************************************************)
\* The request arrives: the form fields are read and, for a voice message,
\* the session is fetched.
Receive(r, u, body, media) ==
    /\ req[r].pc = "idle"
    /\ accepted < MaxRequests
    /\ accepted' = accepted + 1
    /\ LET base ==
            [IdleReq EXCEPT
                !.from_number = u,
                !.incoming_msg_body = body,
                !.stored = u \in DOMAIN user_sessions,
                !.later = trail[u].first
                            /\ now - trail[u].prev <= SESSION_TIMEOUT,
                !.live = /\ u \in DOMAIN user_sessions
                         /\ heap[user_sessions[u]].msg_count > 0
                         /\ now - heap[user_sessions[u]].last_seen
                                <= SESSION_TIMEOUT,
                !.expired = /\ u \in DOMAIN user_sessions
                            /\ heap[user_sessions[u]].msg_count > 0
                            /\ now - heap[user_sessions[u]].last_seen
                                   > SESSION_TIMEOUT]
       IN  IF media
           THEN LET g == get_user_state(user_sessions, heap, req, u, now, r)
                IN  Install(user_sessions, g.heap,
                        [req EXCEPT ![r] =
                            [base EXCEPT !.pc = "transcribe",
                                         !.is_audio = TRUE,
                                         !.user_state = g.state,
                                         !.user_lang = g.heap[g.state].lang]])
           ELSE Install(user_sessions, heap,
                        [req EXCEPT ![r] = [base EXCEPT !.pc = "dispatch"]])
    /\ trail' = [trail EXCEPT ![u].prev = now]
    /\ UNCHANGED << gemini_client, now, call >>

\* the language detected again for every message
resolve_lang_always(lang, d) == detect_language(d)

\* session["lang"] after  if session["lang"] is None: session["lang"] =
\* detect_language(text) , where d is what detect gives for the text
resolve_lang(lang, d) == IF lang = None THEN detect_language(d) ELSE lang

\* the audio branch with the session written to the store before the
\* transcription is tried
Transcribe_commit_first(r, out, d) ==
    /\ req[r].pc = "transcribe"
    /\ ~gemini_client => out.kind = "Exception"
    /\ LET q == [req[r] EXCEPT !.transcribe_calls = @ + 1,
                               !.transcription = out.kind]
           o == q.user_state
           us == store_put(user_sessions, q.from_number, o)
       IN  IF out.kind = "text"
           THEN Install(us, [heap EXCEPT ![o].lang = resolve_lang(@, d)],
                        [req EXCEPT ![r] =
                            [q EXCEPT !.pc = "dispatch",
                                      !.incoming_msg_body = str_strip(out.text),
                                      !.user_state = Null]])
           ELSE Install(us, heap,
                        [req EXCEPT ![r] =
                            [q EXCEPT !.pc = "done",
                                      !.user_state = Null,
                                      !.reply_text = fallback_message(q.user_lang)]])
    /\ UNCHANGED << gemini_client, now, accepted, trail, call >>

\* The transcription returns or raises.  d is what detect gives for the
\* transcribed text, were it called.
Transcribe(r, out, d) ==
    /\ req[r].pc = "transcribe"
    /\ ~gemini_client => out.kind = "Exception"
    /\ LET q == [req[r] EXCEPT !.transcribe_calls = @ + 1,
                               !.transcription = out.kind]
           o == q.user_state
       IN  IF out.kind = "text"
           THEN LET first == heap[o].lang = None
                    h == [heap EXCEPT ![o].lang = resolve_lang(@, d)]
                    us == IF first
                          THEN store_put(user_sessions, q.from_number, o)
                          ELSE user_sessions
                IN  Install(us, h,
                        [req EXCEPT ![r] =
                            [q EXCEPT !.pc = "dispatch",
                                      !.incoming_msg_body = str_strip(out.text),
                                      !.user_state = Null]])
           ELSE Install(user_sessions, heap,
                        [req EXCEPT ![r] =
                            [q EXCEPT !.pc = "done",
                                      !.user_state = Null,
                                      !.reply_text = fallback_message(q.user_lang)]])
    /\ UNCHANGED << gemini_client, now, accepted, trail, call >>

\* the test for an empty message with .strip() left out
is_empty_unstripped(body) == body = ""

\* not incoming_msg_body.strip()
is_empty(body) == str_strip(body) = ""

\* The text is looked at: an empty one is answered at once, any other is
\* handed to build_conversation_response, which fetches the session.
Dispatch(r) ==
    /\ req[r].pc = "dispatch"
    /\ LET q == req[r]
       IN  IF is_empty(q.incoming_msg_body)
           THEN Install(user_sessions, heap,
                        [req EXCEPT ![r].pc = "done",
                                    ![r].reply_text = EMPTY_REPLY])
           ELSE LET g == get_user_state(user_sessions, heap, req,
                                        q.from_number, now, r)
                IN  Install(user_sessions, g.heap,
                        [req EXCEPT ![r].pc = "bcr_commit",
                                    ![r].state = g.state])
    /\ UNCHANGED << gemini_client, now, accepted, trail, call >>

\* The response is sent and the thread is free again.
Respond(r) ==
    /\ req[r].pc \in { "done", "error500" }
    /\ Install(user_sessions, heap, [req EXCEPT ![r] = IdleReq])
    /\ UNCHANGED << gemini_client, now, accepted, trail, call >>

(***************************************************************************)
(* build_conversation_response.                                             *)
(***************************************************************************)
\* The message is counted, the language is detected if the session has
\* none, and the session is written to the store.  d is what detect gives
\* for the text of the message, were it called.
Commit(r, d) ==
    /\ req[r].pc = "bcr_commit"
    /\ LET q == req[r]
           o == q.state
           s == heap[o]
       IN  Install(store_put(user_sessions, q.from_number, o),
                   [heap EXCEPT ![o].msg_count = @ + 1,
                                ![o].lang = resolve_lang(@, d)],
                   [req EXCEPT ![r].pc = "bcr_gate",
                               ![r].is_first_message = (s.msg_count = 0)])
    /\ UNCHANGED << gemini_client, now, accepted, trail, call >>

\* the two checks in the other order
classify_emergency_first(normalized) ==
    IF is_emergency(normalized) THEN "emergency"
    ELSE IF is_exit(normalized) THEN "exit"
    ELSE "normal"

\* which of the checks on incoming_msg_normalized fires first
classify(normalized) ==
    IF is_exit(normalized) THEN "exit"
    ELSE IF is_emergency(normalized) THEN "emergency"
    ELSE "normal"

\* the welcome step without the test for the first message
welcome_prefix_always(is_first_message, is_audio, lang) ==
    IF ~is_audio THEN welcome_banner(lang) ELSE ""

\* what the welcome step puts in final_response
welcome_prefix(is_first_message, is_audio, lang) ==
    IF is_first_message /\ ~is_audio THEN welcome_banner(lang) ELSE ""

\* an except clause that catches APIError alone: any other exception
\* leaves build_conversation_response and the webhook answers 500
bcr_except_api_only(q, e) ==
    IF e = "APIError"
    THEN [q EXCEPT !.pc = "done", !.exc = e, !.llm_state = Null,
                   !.reply_text = fallback_message(q.lang)]
    ELSE [q EXCEPT !.pc = "error500", !.exc = e, !.llm_state = Null]

\* the thread after the except clause of build_conversation_response has
\* caught exception e
bcr_except(q, e) ==
    [q EXCEPT !.pc = "done", !.exc = e, !.llm_state = Null,
              !.reply_text = fallback_message(q.lang)]

\* the return of ask_llm with the referral block left out
bcr_return_bare(q, llm_reply) ==
    [q EXCEPT !.pc = "done", !.llm_state = Null,
              !.llm_reply = llm_reply,
              !.final_response = @ \o llm_reply,
              !.reply_text = q.final_response \o llm_reply]

\* the thread after ask_llm has returned llm_reply: the reply and the
\* referral block are appended and the response is returned
bcr_return(q, llm_reply) ==
    [q EXCEPT !.pc = "done", !.llm_state = Null,
              !.llm_reply = llm_reply,
              !.final_response = @ \o llm_reply \o referral_block(q.lang),
              !.reply_text = q.final_response \o llm_reply
                                \o referral_block(q.lang)]

\* The exit words, then the emergency words, then the welcome banner.
Gate(r) ==
    /\ req[r].pc = "bcr_gate"
    /\ LET q == req[r]
           incoming_msg_normalized == normalize(q.incoming_msg_body)
           lang == heap[q.state].lang
           branch == classify(incoming_msg_normalized)
       IN  IF branch = "exit"
           THEN Install(store_pop(user_sessions, q.from_number), heap,
                        [req EXCEPT ![r].pc = "done",
                                    ![r].state = Null,
                                    ![r].lang = lang,
                                    ![r].reply_text = EXIT_REPLY])
           ELSE IF branch = "emergency"
           THEN Install(store_pop(user_sessions, q.from_number), heap,
                        [req EXCEPT ![r].pc = "done",
                                    ![r].state = Null,
                                    ![r].lang = lang,
                                    ![r].criticals = @ + 1,
                                    ![r].reply_text = emergency_message(lang)])
           ELSE Install(user_sessions, heap,
                        [req EXCEPT ![r].pc = "ask_llm",
                                    ![r].state = Null,
                                    ![r].lang = lang,
                                    ![r].final_response =
                                        welcome_prefix(q.is_first_message,
                                                       q.is_audio, lang)])
    /\ UNCHANGED << gemini_client, now, accepted, trail, call >>

\* a message that is neither an exit nor an emergency has been processed
\* once its thread is done
Processed(r) ==
    trail' = IF req'[r].pc = "done"
             THEN [trail EXCEPT ![req[r].from_number].first = TRUE]
             ELSE trail

(***************************************************************************)
(* ask_llm, under backoff.on_exception(..., max_tries=3).                   *)
(***************************************************************************)
\* the turn put at the head of the history
append_turn_front(history, turn) == << turn >> \o history

\* state["history"].append(turn)
append_turn(history, turn) == Append(history, turn)

\* One call of the function, up to the generation request: without a
\* client the fallback is returned; a user id missing from the store
\* raises KeyError, which backoff does not retry; otherwise the question is
\* appended to the history of the stored session.
AskLlm(r) ==
    /\ req[r].pc = "ask_llm"
    /\ LET q == [req[r] EXCEPT !.llm_calls = @ + 1]
       IN  IF ~gemini_client
           THEN Install(user_sessions, heap,
                        [req EXCEPT ![r] =
                            bcr_return(q, fallback_message(q.lang))])
           ELSE IF q.from_number \notin DOMAIN user_sessions
           THEN Install(user_sessions, heap,
                        [req EXCEPT ![r] = bcr_except(q, "KeyError")])
           ELSE LET o == user_sessions[q.from_number]
                    turn == [role |-> "user", text |-> q.incoming_msg_body]
                IN  Install(user_sessions,
                        [heap EXCEPT ![o].history = append_turn(@, turn)],
                        [req EXCEPT ![r] =
                            [q EXCEPT !.pc = "generate", !.llm_state = o,
                                      !.hist0 = IF @ = -1
                                                THEN Len(heap[o].history)
                                                ELSE @]])
    /\ Processed(r)
    /\ UNCHANGED << gemini_client, now, accepted, call >>

\* whether backoff gives up after this many failed tries
backoff_giveup(tries) == tries >= max_tries

\* The generation request ends with resp.  A non-empty text is appended to
\* the history and returned; an APIError is raised again and retried by
\* backoff until max_tries calls were made, then it reaches the caller;
\* anything else is answered with the fallback message.
Generate(r, resp) ==
    /\ req[r].pc = "generate"
    /\ LET q == [req[r] EXCEPT !.response = resp]
           o == q.llm_state
           reply == str_strip(resp.text)
           turn == [role |-> "model", text |-> reply]
       IN  IF resp.kind = "text" /\ reply # ""
           THEN Install(user_sessions,
                        [heap EXCEPT ![o].history = append_turn(@, turn)],
                        [req EXCEPT ![r] = bcr_return(q, reply)])
           ELSE IF resp.kind = "APIError"
           THEN IF backoff_giveup(q.tries + 1)
                THEN Install(user_sessions, heap,
                        [req EXCEPT ![r] =
                            bcr_except([q EXCEPT !.tries = @ + 1],
                                       "APIError")])
                ELSE Install(user_sessions, heap,
                        [req EXCEPT ![r] =
                            [q EXCEPT !.pc = "ask_llm", !.tries = @ + 1,
                                      !.llm_state = Null]])
           ELSE Install(user_sessions, heap,
                        [req EXCEPT ![r] =
                            bcr_return(q, fallback_message(q.lang))])
    /\ Processed(r)
    /\ UNCHANGED << gemini_client, now, accepted, call >>

(***************************************************************************)
(* The clock.                                                               *)
(***************************************************************************)
\* Time passes in steps of minutes, which happens only while every thread
\* is idle or waits for the network (a transcription or generation call).
Tick(d) ==
    /\ \A r \in Reqs : req[r].pc \in { "idle", "transcribe", "generate" }
    /\ now + d <= MaxTime
    /\ now' = now + d
    /\ UNCHANGED << gemini_client, user_sessions, heap, req, accepted, trail,
                    call >>

(***************************************************************************)
(* Specifications.                                                          *)
(***************************************************************************)
\* the steps of a request that is being served
Serve(r) ==
    \/ \E out \in TranscribeOutcomes, d \in DetectOutcomes :
            Transcribe(r, out, d)
    \/ Dispatch(r)
    \/ \E d \in DetectOutcomes : Commit(r, d)
    \/ Gate(r)
    \/ AskLlm(r)
    \/ \E resp \in Responses : Generate(r, resp)
    \/ Respond(r)

\* a request of one of the users arrives at thread r: a text message with
\* one of the bodies, or a voice message (its body is empty)
Arrive(r, users, bodies) ==
    \E u \in users :
        \/ \E body \in bodies : Receive(r, u, body, FALSE)
        \/ Receive(r, u, "", TRUE)

\* One user, requests processed one at a time, minutes may pass between
\* and during them.
NextSerial ==
    \/ (\A r \in Reqs : req[r].pc = "idle") /\ Arrive(1, SerialUsers, Messages)
    \/ \E r \in Reqs : Serve(r)
    \/ \E d \in TickSteps : Tick(d)

SpecSerial == Init /\ [][NextSerial]_vars

\* One user, a burst of requests served by parallel threads (a rapid
\* double send): the threads interleave at every step, and the burst is
\* over before minutes have passed.
NextThreads ==
    \/ \E r \in Reqs :
        /\ accepted < MaxBurst
        /\ \A p \in Reqs : p < r => req[p].pc # "idle"
        /\ Arrive(r, SerialUsers, BurstMessages)
    \/ \E r \in Reqs : Serve(r)

SpecThreads == Init /\ [][NextThreads]_vars

\* Two users write at the same time, and their requests are served by
\* parallel threads: thread r serves the user UserSeq[r], and the threads
\* interleave at every step.
NextUsers ==
    \/ \E r \in Reqs \cap DOMAIN UserSeq :
        /\ accepted < MaxBurst
        /\ Arrive(r, { UserSeq[r] }, BurstMessages)
    \/ \E r \in Reqs : Serve(r)

SpecUsers == Init /\ [][NextUsers]_vars

(***************************************************************************)
(* The localized content functions, called on their own.                   *)
(***************************************************************************)
\* the language codes langdetect can give, and what else a caller can pass:
\* None, the empty string, a code in upper case
LangCodes ==
    { "af", "ar", "bg", "bn", "ca", "cs", "cy", "da", "de", "el", "en",
      "es", "et", "fa", "fi", "fr", "gu", "he", "hi", "hr", "hu", "id",
      "it", "ja", "kn", "ko", "lt", "lv", "mk", "ml", "mr", "ne", "nl",
      "no", "pa", "pl", "pt", "ro", "ru", "sk", "sl", "so", "sq", "sv",
      "sw", "ta", "te", "th", "tl", "tr", "uk", "ur", "vi", "zh-cn",
      "zh-tw", None, "", "EN" }

\* the welcome text, the emergency message, the fallback message, the map
\* query and the map link
ContentFunctions ==
    { "welcome", "emergency", "fallback", "map_query", "map_link" }

\* what content function fn returns for lang
content(fn, lang) ==
    CASE fn = "welcome" -> welcome_text(lang)
      [] fn = "emergency" -> emergency_message(lang)
      [] fn = "fallback" -> fallback_message(lang)
      [] fn = "map_query" -> localized_query(lang)
      [] fn = "map_link" -> generate_maps_link(lang)

\* a content function is called with a language code
Call(fn, lang) ==
    /\ call' = [fn |-> fn, lang |-> lang, result |-> content(fn, lang)]
    /\ UNCHANGED << gemini_client, user_sessions, heap, now, req, accepted,
                    trail >>

NextContent == \E fn \in ContentFunctions, lang \in LangCodes : Call(fn, lang)

SpecContent == Init /\ [][NextContent]_vars

TypeOK ==
    /\ gemini_client \in BOOLEAN
    /\ DOMAIN user_sessions \subseteq Users
    /\ \A u \in DOMAIN user_sessions : user_sessions[u] \in ObjIds
    /\ now \in 0..MaxTime
    /\ accepted \in 0..MaxRequests
    /\ \A o \in ObjIds :
        /\ heap[o].lang \in Range(SUPPORTED_LANGS) \cup { None }
        /\ heap[o].msg_count \in Nat
        /\ heap[o].last_seen \in 0..MaxTime
    /\ \A r \in Reqs :
        req[r].pc \in { "idle", "transcribe", "dispatch", "bcr_commit",
                        "bcr_gate", "ask_llm", "generate", "done",
                        "error500" }

(***************************************************************************)
(* Properties.  They read the phrase tables and the string methods          *)
(* directly, not the operators of the conversation flow they are about.    *)
(***************************************************************************)
\* the texts a request can carry: a body as sent, or a transcript as the
\* transcription returns it
Texts == Messages \cup { str_strip(t) : t \in Transcripts }

\* a text, lower-cased and trimmed
Normalized(text) == str_strip(str_lower(text))

\* the texts that contain a phrase of EXIT_WORDS, in any letter case
ExitTexts ==
    { t \in Texts :
        \E i \in DOMAIN EXIT_WORDS : str_in(EXIT_WORDS[i], Normalized(t)) }

\* the texts that contain a phrase of EMERGENCY_WORDS, in any letter case
EmergencyTexts ==
    { t \in Texts :
        \E i \in DOMAIN EMERGENCY_WORDS :
            str_in(EMERGENCY_WORDS[i], Normalized(t)) }

\* the text of request r contains a phrase of EXIT_WORDS
HasExitPhrase(r) == req[r].incoming_msg_body \in ExitTexts

\* the text of request r contains a phrase of EMERGENCY_WORDS
HasEmergencyPhrase(r) == req[r].incoming_msg_body \in EmergencyTexts

\* request r has its reply
Answered(r) == req[r].pc = "done"

\* the store holds no session for the user of request r
NoSession(r) == req[r].from_number \notin DOMAIN user_sessions

\* the reply does not begin with the welcome banner of any language
NoBanner(reply) ==
    \A i \in DOMAIN SUPPORTED_LANGS :
        ~str_startswith(reply, welcome_banner(SUPPORTED_LANGS[i]))

\* what build_conversation_response does for an emergency, on request r
EmergencyHandoff(r) ==
    /\ NoSession(r)
    /\ req[r].reply_text = EMERGENCY_MESSAGE(req[r].lang)
    /\ req[r].llm_calls = 0
    /\ req[r].criticals = 1

\* C1 as stated: every text that contains an emergency phrase ends the
\* session, is answered with the emergency message of the session language,
\* reaches no call of ask_llm and is logged at critical severity exactly
\* once.
C1_EveryEmergencyText ==
    \A r \in Reqs :
        Answered(r) /\ HasEmergencyPhrase(r) => EmergencyHandoff(r)

\* C1 amended: every text that contains an emergency phrase and no exit
\* phrase ends the session, is answered with the emergency message of the
\* session language, reaches no call of ask_llm and is logged at critical
\* severity exactly once.
C1_EmergencyWithoutExitPhrase ==
    \A r \in Reqs :
        Answered(r) /\ HasEmergencyPhrase(r) /\ ~HasExitPhrase(r)
            => EmergencyHandoff(r)

\* an emergency phrase inside a longer text of a Hindi session was handed
\* off, the earlier messages of the session having been answered
C1_Witness ==
    \E r \in Reqs :
        /\ Answered(r) /\ HasEmergencyPhrase(r) /\ ~HasExitPhrase(r)
        /\ req[r].incoming_msg_body \notin Range(EMERGENCY_WORDS)
        /\ req[r].lang = "hi" /\ ~req[r].is_first_message
        /\ EmergencyHandoff(r)

\* C2: every text that contains an exit phrase, in any letter case, removes
\* the session of the user from the store, is answered with the fixed
\* termination acknowledgment and reaches no call of ask_llm, whatever the
\* session was before.
C2_ExitEndsSession ==
    \A r \in Reqs :
        Answered(r) /\ HasExitPhrase(r)
            => /\ NoSession(r)
               /\ req[r].reply_text = EXIT_REPLY
               /\ req[r].llm_calls = 0

\* "No", in upper case, ended a session that had answered messages before
C2_Witness ==
    \E r \in Reqs :
        /\ Answered(r) /\ HasExitPhrase(r)
        /\ req[r].incoming_msg_body # str_lower(req[r].incoming_msg_body)
        /\ req[r].stored /\ ~req[r].is_first_message
        /\ NoSession(r) /\ req[r].reply_text = EXIT_REPLY

\* C3: a message that contains an exit phrase and an emergency phrase is
\* answered with the termination acknowledgment, not with the emergency
\* message, and nothing is logged at critical severity.
C3_ExitWins ==
    \A r \in Reqs :
        Answered(r) /\ HasExitPhrase(r) /\ HasEmergencyPhrase(r)
            => /\ req[r].reply_text = EXIT_REPLY
               /\ req[r].reply_text # emergency_message(req[r].lang)
               /\ req[r].criticals = 0

\* a message with both kinds of phrase was answered
C3_Witness ==
    \E r \in Reqs :
        /\ Answered(r) /\ HasExitPhrase(r) /\ HasEmergencyPhrase(r)
        /\ req[r].reply_text = EXIT_REPLY /\ req[r].criticals = 0

\* the last generation request of request r returned a non-empty text
Succeeded(r) ==
    req[r].response.kind = "text" /\ str_strip(req[r].response.text) # ""

\* C4: once ask_llm has run with a configured client, a success after fewer
\* than max_tries transient failures is returned as the reply, and after
\* max_tries transient failures ask_llm returns the fallback message of the
\* language without raising, having been called exactly max_tries times.
C4_RetryBound ==
    \A r \in Reqs :
        Answered(r) /\ gemini_client /\ req[r].llm_calls > 0
            => /\ (req[r].tries < max_tries /\ Succeeded(r))
                    => req[r].llm_reply = str_strip(req[r].response.text)
               /\ req[r].tries >= max_tries
                    => /\ req[r].llm_reply = fallback_message(req[r].lang)
                       /\ req[r].exc = None
                       /\ req[r].llm_calls = max_tries

\* C5: no exception leaves build_conversation_response, and whenever one
\* was raised in the model turn (the retries of ask_llm used up, or the
\* session gone from the store when ask_llm looks it up) the reply is
\* exactly the fallback message of the session language.
C5_NoExceptionEscapes ==
    \A r \in Reqs :
        /\ req[r].pc # "error500"
        /\ Answered(r) /\ req[r].exc # None
            => req[r].reply_text = fallback_message(req[r].lang)

\* ask_llm did not find the session, which a parallel request had removed,
\* and the user was answered with the fallback message
C5_Witness ==
    \E r \in Reqs :
        /\ Answered(r) /\ req[r].exc = "KeyError"
        /\ NoSession(r)
        /\ req[r].reply_text = fallback_message(req[r].lang)

\* the texts that are empty once trimmed
BlankTexts == { t \in Texts : str_strip(t) = "" }

\* the texts that reach the model turn
PlainTexts == Texts \ (BlankTexts \cup ExitTexts \cup EmergencyTexts)

\* C6: the reply to a text message without exit or emergency phrase from a
\* user who had no session in the store begins with the welcome banner of
\* the detected language, whatever the model call ended in.
C6_BannerForNewUser ==
    \A r \in Reqs :
        /\ Answered(r) /\ ~req[r].stored /\ ~req[r].is_audio
        /\ req[r].incoming_msg_body \in PlainTexts
        => str_startswith(req[r].reply_text, welcome_banner(req[r].lang))

\* C7 as stated: once a message without exit or emergency phrase has been
\* processed for a user, the reply to every later message that arrives
\* within SESSION_TIMEOUT of the one before it carries no welcome banner.
C7_NoBannerOnLaterMessage ==
    \A r \in Reqs :
        Answered(r) /\ req[r].later => NoBanner(req[r].reply_text)

\* C7 amended: once a message without exit or emergency phrase has been
\* processed for a user, the reply to every later message that arrives
\* within SESSION_TIMEOUT of the one before it, while the session is still
\* in the store with its last access no more than SESSION_TIMEOUT ago,
\* carries no welcome banner, the stored message count being above zero.
C7_NoBannerWhileSessionLives ==
    \A r \in Reqs :
        Answered(r) /\ req[r].later /\ req[r].live
            => NoBanner(req[r].reply_text)

\* a later text message of a live session was answered by the model, and
\* the reply is the model's text and the referral block, nothing before
C7_Witness ==
    \E r \in Reqs :
        /\ Answered(r) /\ req[r].later /\ req[r].live
        /\ ~req[r].is_audio /\ Succeeded(r)
        /\ req[r].reply_text
             = req[r].llm_reply \o referral_block(req[r].lang)

\* request r calls get_user_state in this step
Fetches(r) ==
    \/ req[r].pc = "idle" /\ req'[r].pc = "transcribe"
    \/ req[r].pc = "dispatch" /\ req'[r].pc = "bcr_commit"

\* the dictionary the call returned to request r
Fetched(r) ==
    IF req'[r].pc = "transcribe" THEN req'[r].user_state ELSE req'[r].state

\* a session dictionary as it is built at time t
FreshAt(t) ==
    [lang |-> None, msg_count |-> 0, last_seen |-> t, history |-> << >>]

\* get_user_state returns the stored session, its last_seen set to now and
\* nothing else changed, if and only if the user has one and now minus its
\* last_seen is at most SESSION_TIMEOUT; otherwise it returns a new, empty
\* dictionary and leaves the store as it is
FetchIsLazyAndSliding(r) ==
    Fetches(r) =>
        LET u == req'[r].from_number
            o == Fetched(r)
        IN  /\ user_sessions' = user_sessions
            /\ IF /\ u \in DOMAIN user_sessions
                  /\ now - heap[user_sessions[u]].last_seen <= SESSION_TIMEOUT
               THEN /\ o = user_sessions[u]
                    /\ heap'[o] = [heap[o] EXCEPT !.last_seen = now]
               ELSE /\ u \in DOMAIN user_sessions => o # user_sessions[u]
                    /\ heap'[o] = FreshAt(now)

\* a message that build_conversation_response receives with a new, empty
\* dictionary is counted as the first one, its language is detected, and
\* the session is stored with no history
MissStartsOver(r) ==
    /\ req[r].pc = "bcr_commit" /\ req'[r].pc = "bcr_gate"
    /\ heap[req[r].state].msg_count = 0 /\ heap[req[r].state].lang = None
    => LET u == req[r].from_number
       IN  /\ req'[r].is_first_message
           /\ u \in DOMAIN user_sessions'
           /\ user_sessions'[u] = req[r].state
           /\ heap'[user_sessions'[u]].lang \in Range(SUPPORTED_LANGS)
           /\ heap'[user_sessions'[u]].msg_count = 1
           /\ heap'[user_sessions'[u]].history = << >>

\* the welcome step puts the banner at the head of the response when a
\* message handled as a first one is a text without exit or emergency
\* phrase
WelcomeStepOnFirstPlainText(r) ==
    /\ req'[r].is_first_message /\ ~req'[r].is_audio
    /\ req'[r].incoming_msg_body \in PlainTexts
    /\ req'[r].pc \in { "ask_llm", "generate", "done" }
    => str_startswith(req'[r].final_response, welcome_banner(req'[r].lang))

\* the reply to the message that finds the session expired begins with the
\* banner, the message being a text without exit or emergency phrase, as
\* for the first message of a new user
BannerAgainAfterExpiry(r) ==
    /\ req[r].pc # "done" /\ req'[r].pc = "done"
    /\ req'[r].expired /\ ~req'[r].is_audio
    /\ req'[r].incoming_msg_body \in PlainTexts
    => str_startswith(req'[r].reply_text, welcome_banner(req'[r].lang))

\* C8: get_user_state returns the stored session, refreshing its
\* last_seen, if and only if now minus last_seen is at most SESSION_TIMEOUT,
\* whatever the age of the session; otherwise the message is handled as a
\* first message, with the language detected from it, an empty history and
\* the welcome banner again: the reply begins with the banner where a first
\* message gets one (a text without exit or emergency phrase), whatever
\* the model call ends in.
C8_SlidingExpiryAndBanner ==
    [][\A r \in Reqs : /\ FetchIsLazyAndSliding(r)
                       /\ MissStartsOver(r)
                       /\ WelcomeStepOnFirstPlainText(r)
                       /\ BannerAgainAfterExpiry(r)]_vars

\* The part of C8 that every step keeps: the validity rule of
\* get_user_state, the new start after a miss, and the banner at the head
\* of the response the welcome step builds.
C8_SlidingExpiry ==
    [][\A r \in Reqs : /\ FetchIsLazyAndSliding(r)
                       /\ MissStartsOver(r)
                       /\ WelcomeStepOnFirstPlainText(r)]_vars

\* the session of the user, which had counted a message, had expired when
\* the message arrived, and the reply to the message, a text without exit
\* or emergency phrase handled as a first one, is the fallback message
\* alone
C8_NoBannerAfterExpiry ==
    \E r \in Reqs :
        /\ Answered(r) /\ req[r].expired
        /\ req[r].is_first_message /\ ~req[r].is_audio
        /\ req[r].incoming_msg_body \in PlainTexts
        /\ req[r].exc # None
        /\ req[r].reply_text = fallback_message(req[r].lang)

\* the user's stored session is past SESSION_TIMEOUT
Expired(u) == now - heap[user_sessions[u]].last_seen > SESSION_TIMEOUT

\* C9: the language of a session dictionary, once set, is changed by no
\* step, and neither is the language the store holds for a user as long as
\* the session is kept: the store holds another language for the user only
\* after the session was removed, or once a new session replaces an
\* expired one.
C9_LanguageIsSticky ==
    [][/\ \A o \in ObjIds :
             /\ o \in Live(user_sessions, req)
             /\ o \in Live(user_sessions', req')
             /\ heap[o].lang # None
             => heap'[o].lang = heap[o].lang
       /\ \A u \in DOMAIN user_sessions \cap DOMAIN user_sessions' :
             /\ heap[user_sessions[u]].lang # None
             /\ heap'[user_sessions'[u]].lang # heap[user_sessions[u]].lang
             => user_sessions'[u] # user_sessions[u] /\ Expired(u)]_vars

\* a voice message was the second message of a Hindi session: both the
\* audio branch and build_conversation_response have passed the detection
C9_Witness ==
    \E r \in Reqs :
        /\ req[r].pc = "bcr_gate" /\ req[r].is_audio
        /\ ~req[r].is_first_message /\ ~NoSession(r)
        /\ heap[user_sessions[req[r].from_number]].lang = "hi"
        /\ heap[user_sessions[req[r].from_number]].msg_count = 2

\* C10: with one request at a time, after a turn with an exit or emergency
\* phrase the store has no entry for the user, and the next message of a
\* user without entry starts from a new dictionary: message count 0, no
\* history, no language; it is counted as a first message and its language
\* is detected anew.
C10_EndedSessionLeavesNothing ==
    \A r \in Reqs :
        /\ Answered(r) /\ (HasExitPhrase(r) \/ HasEmergencyPhrase(r))
            => NoSession(r)
        /\ NoSession(r) /\ req[r].pc = "bcr_commit"
            => heap[req[r].state] = FreshAt(now)
        /\ NoSession(r) /\ req[r].pc = "transcribe"
            => heap[req[r].user_state]
                 = FreshAt(heap[req[r].user_state].last_seen)
        /\ ~req[r].stored /\ req[r].pc = "bcr_gate"
            => /\ req[r].is_first_message
               /\ ~NoSession(r)
               /\ heap[user_sessions[req[r].from_number]].msg_count = 1
               /\ heap[user_sessions[req[r].from_number]].history = << >>
               /\ heap[user_sessions[req[r].from_number]].lang
                    \in Range(SUPPORTED_LANGS)

\* a user whose earlier session had answered a message and was then ended
\* sends the next message, which starts from a new dictionary
C10_Witness ==
    \E r \in Reqs :
        /\ req[r].pc = "bcr_commit" /\ NoSession(r)
        /\ trail[req[r].from_number].first
        /\ heap[req[r].state] = FreshAt(now)

\* C11: a request with an empty or whitespace-only body and no media is
\* answered with the empty-message notice without entering
\* build_conversation_response (no first-message count, no call of
\* ask_llm), and neither its arrival nor its answer changes the store or
\* any session dictionary.
C11_EmptyMessageLeavesStore ==
    [][\A r \in Reqs :
         /\ req[r].pc = "idle" /\ req'[r].pc = "dispatch"
            /\ req'[r].incoming_msg_body \in BlankTexts
            => user_sessions' = user_sessions /\ heap' = heap
         /\ req[r].pc = "dispatch" /\ ~req[r].is_audio
            /\ req[r].incoming_msg_body \in BlankTexts
            /\ req'[r] # req[r]
            => /\ req'[r].pc = "done"
               /\ req'[r].reply_text = EMPTY_REPLY
               /\ ~req'[r].is_first_message
               /\ req'[r].llm_calls = 0
               /\ user_sessions' = user_sessions
               /\ heap' = heap]_vars

\* a whitespace-only text of a user with a stored session got the notice
C11_Witness ==
    \E r \in Reqs :
        /\ Answered(r) /\ ~req[r].is_audio /\ req[r].stored
        /\ req[r].incoming_msg_body \in BlankTexts
        /\ req[r].incoming_msg_body # ""
        /\ req[r].reply_text = EMPTY_REPLY
        /\ ~NoSession(r)

\* what the audio branch does when it gives up on a voice message, in the
\* step of request r that ends the transcription: the reply is the
\* fallback message for the language of the session it fetched, one
\* transcription call was made, build_conversation_response and ask_llm
\* are not entered, and the store and the stored sessions stay as they are
AudioShortCircuit(r) ==
    /\ req'[r].pc = "done"
    /\ req'[r].reply_text = fallback_message(heap[req[r].user_state].lang)
    /\ req'[r].transcribe_calls = 1
    /\ ~req'[r].is_first_message
    /\ req'[r].llm_calls = 0
    /\ user_sessions' = user_sessions
    /\ \A u \in DOMAIN user_sessions :
          heap'[user_sessions[u]] = heap[user_sessions[u]]

\* C12 as stated: a voice message whose transcription fails, by raising
\* or by giving an empty transcript, is tried once and answered with the
\* fallback message for the user's language, and nothing else is done: no
\* build_conversation_response, no message counted, no session committed,
\* no generation call.
C12_FailedTranscriptionFallsBack ==
    [][\A r \in Reqs :
         /\ req[r].pc = "transcribe" /\ req'[r] # req[r]
         /\ \/ req'[r].transcription = "Exception"
            \/ req'[r].incoming_msg_body \in BlankTexts
         => AudioShortCircuit(r)]_vars

\* C12 amended: a voice message whose transcription raises is tried once
\* and answered with the fallback message for the language of the user's
\* session (the default text if the session has none), and nothing else is
\* done: no build_conversation_response, no message counted, no session
\* committed, no generation call.
C12_RaisedTranscriptionFallsBack ==
    [][\A r \in Reqs :
         /\ req[r].pc = "transcribe" /\ req'[r] # req[r]
         /\ req'[r].transcription = "Exception"
         => AudioShortCircuit(r)]_vars

\* the voice message of a user with a Hindi session could not be
\* transcribed and was answered with the Hindi fallback message
C12_Witness ==
    \E r \in Reqs :
        /\ Answered(r) /\ req[r].is_audio
        /\ req[r].transcription = "Exception"
        /\ req[r].transcribe_calls = 1
        /\ ~NoSession(r)
        /\ heap[user_sessions[req[r].from_number]].lang = "hi"
        /\ req[r].reply_text = fallback_message("hi")

\* C13: for every language code outside en, hi, mr, bn, None included, each
\* localized content function (welcome, emergency, fallback, map query,
\* map link) returns exactly the string it returns for "en".
C13_DefaultIsEnglish ==
    call.fn # None /\ call.lang \notin { "en", "hi", "mr", "bn" }
        => call.result = content(call.fn, "en")

\* C14: a call of ask_llm that ends in success has extended the history of
\* the session by exactly one user turn followed by one model turn, however
\* many transient failures were retried before, and has left the turns
\* before them as they were.
C14_OneTurnPairPerSuccess ==
    \A r \in Reqs :
        Answered(r) /\ Succeeded(r) /\ req[r].exc = None /\ ~NoSession(r)
            => LET h == heap[user_sessions[req[r].from_number]].history
                   n == req[r].hist0
               IN  /\ Len(h) = n + 2
                   /\ h[n + 1] = [role |-> "user",
                                  text |-> req[r].incoming_msg_body]
                   /\ h[n + 2] = [role |-> "model",
                                  text |-> req[r].llm_reply]

\* the generation request of request r ended in a failure other than an
\* APIError: an empty reply or another exception
FailedOtherwise(r) ==
    /\ req[r].response.kind \notin { "None", "APIError" }
    /\ ~Succeeded(r)

\* C15: when the generation request fails otherwise than by an APIError
\* (an empty reply, a RequestException, any other exception), ask_llm is
\* not called again, it returns the fallback message of the language
\* without raising, and the reply is that message with the referral block
\* appended (after the banner, if one is due).
C15_OtherFailuresFallBackAtOnce ==
    \A r \in Reqs :
        Answered(r) /\ FailedOtherwise(r)
            => /\ req[r].llm_calls = req[r].tries + 1
               /\ req[r].exc = None
               /\ req[r].llm_reply = fallback_message(req[r].lang)
               /\ req[r].reply_text
                    = welcome_prefix(req[r].is_first_message,
                                     req[r].is_audio, req[r].lang)
                        \o fallback_message(req[r].lang)
                        \o referral_block(req[r].lang)

\* a RequestException on the first generation request: one call of
\* ask_llm, and the reply carries the fallback message and the map link
C15_Witness ==
    \E r \in Reqs :
        /\ Answered(r) /\ req[r].response.kind = "RequestException"
        /\ req[r].llm_calls = 1 /\ req[r].tries = 0
        /\ req[r].llm_reply = fallback_message(req[r].lang)
        /\ str_in(generate_maps_link(req[r].lang), req[r].reply_text)

\* the reply to request r begins with the welcome banner of its language
Welcomed(r) ==
    str_startswith(req[r].reply_text, welcome_banner(req[r].lang))

\* requests a and b are two text messages of one user, without exit or
\* emergency phrase, both answered by a return of ask_llm
AnsweredPair(a, b) ==
    /\ a # b
    /\ req[a].from_number = req[b].from_number
    /\ \A r \in { a, b } :
          /\ Answered(r) /\ ~req[r].is_audio /\ req[r].exc = None
          /\ req[r].incoming_msg_body \in PlainTexts

\* C16: two parallel requests of a user without session can both read
\* message count 0; whenever they do, both replies carry the welcome
\* banner and the stored session counts fewer messages than have arrived:
\* 1 instead of 2 when the two are the only messages so far, the later
\* commit having replaced the session of the earlier one.  When one of the
\* two reads the other's commit, one reply carries the banner and the
\* count is 2.
C16_LostCountUpdate ==
    \A a, b \in Reqs :
        AnsweredPair(a, b)
            => LET u == req[a].from_number
               IN  IF req[a].is_first_message /\ req[b].is_first_message
                   THEN /\ Welcomed(a) /\ Welcomed(b)
                        /\ u \in DOMAIN user_sessions
                              => heap[user_sessions[u]].msg_count < accepted
                        /\ accepted = 2
                              => /\ u \in DOMAIN user_sessions
                                 /\ heap[user_sessions[u]].msg_count = 1
                   ELSE accepted = 2
                            => /\ Welcomed(a) # Welcomed(b)
                               /\ u \in DOMAIN user_sessions
                               /\ heap[user_sessions[u]].msg_count = 2

\* both requests read count 0, both were welcomed, and the store counts 1
C16_Witness ==
    \E a, b \in Reqs :
        /\ AnsweredPair(a, b)
        /\ req[a].is_first_message /\ req[b].is_first_message
        /\ Welcomed(a) /\ Welcomed(b)
        /\ heap[user_sessions[req[a].from_number]].msg_count = 1

\* the turns of role among the first i turns of history h
TurnsOf(h, role, i) == Cardinality({ k \in 1..i : h[k].role = role })

\* every model turn of h has a user turn of its own before it
Balanced(h) ==
    \A i \in 1..Len(h) : TurnsOf(h, "model", i) <= TurnsOf(h, "user", i)

\* requests a and b, the only messages so far, have both been answered by
\* the model at the first try and have written their turns to the same,
\* stored session
BothSucceededAtOnce(a, b) ==
    /\ a # b
    /\ accepted = 2
    /\ req[a].from_number = req[b].from_number
    /\ \A r \in { a, b } :
          /\ Answered(r) /\ Succeeded(r) /\ req[r].tries = 0
          /\ req[r].exc = None
    /\ ~NoSession(a)
    /\ heap[user_sessions[req[a].from_number]].msg_count = 2

\* C17: with parallel requests of one user the history keeps every turn,
\* and every model turn comes after a user turn of its own, but a model
\* turn need not follow the user turn it answers: when two requests are
\* both answered at the first try, the four turns can stand as user, model,
\* user, model or as user, user, model, model.
C17_TurnOrderNotKept ==
    /\ \A o \in ObjIds : Balanced(heap[o].history)
    /\ \A a, b \in Reqs :
          BothSucceededAtOnce(a, b)
            => LET h == heap[user_sessions[req[a].from_number]].history
               IN  /\ Len(h) = 4
                   /\ TurnsOf(h, "user", 4) = 2
                   /\ TurnsOf(h, "model", 4) = 2

\* both model calls succeeded at the first try and the history reads user,
\* user, model, model
C17_Witness ==
    \E a, b \in Reqs :
        /\ BothSucceededAtOnce(a, b)
        /\ LET h == heap[user_sessions[req[a].from_number]].history
           IN  /\ Len(h) = 4
               /\ h[1].role = "user" /\ h[2].role = "user"
               /\ h[3].role = "model" /\ h[4].role = "model"

\* the session stored for user u by this step is a new one: it has no
\* history and has counted at most the message being processed
StoresNewSession(u) ==
    /\ heap'[user_sessions'[u]].history = << >>
    /\ heap'[user_sessions'[u]].msg_count <= 1

\* C18: with parallel requests of one user, a session that an exit or an
\* emergency turn removed does not come back: the store loses a key only
\* by such a removal, and whatever is stored under the key afterwards is a
\* new session, never the history or the message count of the removed one.
C18_RemovedSessionStaysGone ==
    [][ \A u \in Users :
          (u \notin DOMAIN user_sessions /\ u \in DOMAIN user_sessions')
              => StoresNewSession(u) ]_vars

\* the dictionaries the store holds
Stored == { user_sessions[u] : u \in DOMAIN user_sessions }

\* C20: every session in the store has a language, and it is one of the
\* supported codes: a dictionary whose language is still None (the new
\* session get_user_state returns, held by a request) is not in the store.
C20_StoredSessionHasLanguage ==
    /\ \A o \in Stored : heap[o].lang \in Range(SUPPORTED_LANGS)
    /\ \A r \in Reqs :
          \A o \in { req[r].user_state, req[r].state } \ { Null } :
              heap[o].lang = None => o \notin Stored

\* the audio branch has written a session to the store: it has a language
\* and has counted no message yet
C20_Witness ==
    \E r \in Reqs :
        /\ req[r].is_audio
        /\ req[r].transcription = "text"
        /\ req[r].from_number \in DOMAIN user_sessions
        /\ LET s == heap[user_sessions[req[r].from_number]]
           IN  /\ s.msg_count = 0
               /\ s.lang \in Range(SUPPORTED_LANGS)

\* the user whose request thread r serves in this step
Served(r) ==
    IF req[r].pc = "idle" THEN req'[r].from_number ELSE req[r].from_number

\* this step leaves the store entry of user u and the session it holds as
\* they are
Untouched(u) ==
    /\ (u \in DOMAIN user_sessions) = (u \in DOMAIN user_sessions')
    /\ u \in DOMAIN user_sessions
          => /\ user_sessions'[u] = user_sessions[u]
             /\ heap'[user_sessions[u]] = heap[user_sessions[u]]

\* C19: users are isolated: no step of a request of one user (a model
\* call that fails or is retried included) changes the store entry or the
\* stored session of another user, nor the request being served for the
\* other user.
C19_UsersAreIsolated ==
    [][ \A r \in Reqs :
          req'[r] # req[r]
              => /\ \A u \in Users \ { Served(r) } : Untouched(u)
                 /\ \A p \in Reqs \ { r } : req'[p] = req[p] ]_vars

\* the turn of one user is over, answered by the model, while the model
\* call of the other user is being retried after a failure; the session of
\* each is in the store
C19_Witness ==
    \E a, b \in Reqs :
        /\ req[a].from_number # req[b].from_number
        /\ req[a].pc = "ask_llm" /\ req[a].tries >= 1
        /\ req[b].pc = "done" /\ Succeeded(b)
        /\ { req[a].from_number, req[b].from_number } \subseteq
                DOMAIN user_sessions
        /\ user_sessions[req[a].from_number]
                # user_sessions[req[b].from_number]
====
